---- MODULE Spec2Model ----
(***************************************************************************)
(* Model of garmin_db_config_manager.py: accessors over GarminDBConfig,    *)
(* path builders, and the get-or-create directory operations.              *)
(*                                                                         *)
(* A Python string is a sequence of tokens; the token "/" is os.sep and    *)
(* every other token is a piece of a file name.  The filesystem maps a     *)
(* node (the sequence of a path's components) to its kind.                 *)
(***************************************************************************)
EXTENDS Integers, Sequences, FiniteSets, TLC

VARIABLES GarminDBConfig, fs, call, result, ncalls, again, pc, target, lvl, outcome

vars == <<GarminDBConfig, fs, call, result, ncalls, again, pc, target, lvl, outcome>>

seqVars == <<call, result, ncalls, again>>

raceVars == <<pc, target, lvl, outcome>>

(* ---------------------------- bounds ----------------------------------- *)
MaxCalls == 2

Years == {2023, 905}

Callers == {1, 2}

(* ------------------------- environment --------------------------------- *)
sep == <<"/">>

temp_dir == <<"/", "tmp", "/", "tmpq1">>

homedir == <<"/", "home", "/", "u">>

cwd == <<<<"cwd">>>>

MountDirs == {<<"/", "mnt">>, <<"/", "mnt", "/">>}

(* ------------------------- Python values ------------------------------- *)
None == [t |-> "None", v |-> <<>>]

Str(s) == [t |-> "str", v |-> s]

Dict(d) == [t |-> "dict", v |-> d]

Return(x) == [kind |-> "return", val |-> x, exc |-> "none"]

Raise(e) == [kind |-> "raise", val |-> None, exc |-> e]

NoResult == [kind |-> "none", val |-> None, exc |-> "none"]

Digit(d) == CASE d = 0 -> "0" [] d = 1 -> "1" [] d = 2 -> "2" [] d = 3 -> "3"
              [] d = 4 -> "4" [] d = 5 -> "5" [] d = 6 -> "6" [] d = 7 -> "7"
              [] d = 8 -> "8" [] d = 9 -> "9"

RECURSIVE str(_)
str(n) == IF n < 10 THEN <<Digit(n)>> ELSE Append(str(n \div 10), Digit(n % 10))

(* mapping[key]: KeyError when the key is missing *)
Subscript(section, key) ==
    IF key \in DOMAIN section THEN Return(section[key]) ELSE Raise("KeyError")

(* mapping.get(key): None when the key is missing *)
DictGet(section, key) ==
    IF key \in DOMAIN section THEN section[key] ELSE None

(* --------------------------- ConfigStore ------------------------------- *)
EmptyMap == [k \in {} |-> None]

DbSections ==
    { [type |-> Str(<<"sqlite">>)],
      [type |-> Str(<<"mysql">>), user |-> Str(<<"bob">>),
       password |-> Str(<<"pw">>), host |-> Str(<<"dbhost">>)],
      [type |-> Str(<<"mysql">>), user |-> Str(<<"bob">>)],
      [type |-> Str(<<"postgres">>), user |-> Str(<<"bob">>),
       password |-> Str(<<"pw">>), host |-> Str(<<"dbhost">>)],
      EmptyMap }

BaseDirs == { <<"HealthData">>, <<"/", "data">> }

Directories(b, h) ==
    [ relative_to_home |-> h, base_dir |-> b,
      fit_file_dir |-> <<"FitFiles">>, fitbit_file_dir |-> <<"FitBitFiles">>,
      mshealth_file_dir |-> <<"MSHealth">>, monitoring_file_dir |-> <<"Monitoring">>,
      sleep_files_dir |-> <<"Sleep">>, activities_file_dir |-> <<"Activities">>,
      weight_files_dir |-> <<"Weight">>, rhr_files_dir |-> <<"RHR">>,
      db_dir |-> <<"DBs">> ]

DeviceDirectories ==
    [ base |-> <<"garmin">>, activities |-> <<"activity">>,
      monitoring |-> <<"monitor">>, sleep |-> <<"sleep">>,
      settings |-> <<"settings">> ]

FullGraphs == [ steps |-> Dict([period |-> Str(<<"7">>)]) ]

FullCheckup == [ look_back_days |-> Str(<<"90">>) ]

FullConfig == [ metric |-> Str(<<"True">>) ]

HasExtras(d) == "type" \in DOMAIN d /\ d["type"] = Str(<<"mysql">>)

Config(d, b, h) ==
    [ db |-> d, directories |-> Directories(b, h),
      config |-> IF HasExtras(d) THEN FullConfig ELSE EmptyMap,
      device_directories |-> DeviceDirectories,
      graphs |-> IF HasExtras(d) THEN FullGraphs ELSE EmptyMap,
      checkup |-> IF HasExtras(d) THEN FullCheckup ELSE EmptyMap ]

Sqlite == [type |-> Str(<<"sqlite">>)]

(* every db section with the stock layout, every layout with the stock db *)
Configs ==
    { Config(d, <<"HealthData">>, TRUE) : d \in DbSections }
    \cup { Config(Sqlite, b, h) : b \in BaseDirs, h \in BOOLEAN }

GraphKeys == {"steps", "period", "nokey"}

CheckupKeys == {"look_back_days", "nokey"}

(* --------------------------- filesystem -------------------------------- *)
RECURSIVE Split(_, _, _)
Split(s, cur, acc) ==
    IF s = <<>>
    THEN IF cur = <<>> THEN acc ELSE Append(acc, cur)
    ELSE IF Head(s) = "/"
         THEN Split(Tail(s), <<>>, IF cur = <<>> THEN acc ELSE Append(acc, cur))
         ELSE Split(Tail(s), Append(cur, Head(s)), acc)

(* the node a path string names: components, relative paths under cwd *)
Resolve(path) ==
    IF path # <<>> /\ path[1] = "/" THEN Split(path, <<>>, <<>>)
    ELSE cwd \o Split(path, <<>>, <<>>)

Parent(n) == SubSeq(n, 1, Len(n) - 1)

Prefixes(n) == { SubSeq(n, 1, k) : k \in 0..Len(n) }

N(path) == Split(path, <<>>, <<>>)

BaseTree ==
    [ n \in Prefixes(N(temp_dir)) \cup Prefixes(N(homedir)) \cup Prefixes(cwd)
        |-> "dir" ]

WithNodes(f, g) == [ n \in DOMAIN f \cup DOMAIN g |-> IF n \in DOMAIN g THEN g[n] ELSE f[n] ]

One(n, k) == [ x \in {n} |-> k ]

(* the filesystem states the program may start in *)
InitialFs ==
    { BaseTree,
      WithNodes(BaseTree, One(N(homedir) \o <<<<"HealthData">>>>, "ro")),
      WithNodes(WithNodes(WithNodes(WithNodes(BaseTree,
          One(N(homedir) \o <<<<"HealthData">>>>, "dir")),
          One(N(homedir) \o <<<<"HealthData">>, <<"Sleep">>>>, "file")),
          One(N(homedir) \o <<<<"HealthData">>, <<"FitFiles">>>>, "file")),
          One(N(temp_dir) \o <<<<"DBs">>>>, "file")) }

path_exists(f, path) == Resolve(path) \in DOMAIN f

isdir(f, path) == Resolve(path) \in DOMAIN f /\ f[Resolve(path)] \in {"dir", "ro"}

mkdir(f, n) ==
    IF n \in DOMAIN f THEN [fs |-> f, exc |-> "FileExistsError"]
    ELSE IF \E a \in Prefixes(n) : a \in DOMAIN f /\ f[a] = "file"
         THEN [fs |-> f, exc |-> "NotADirectoryError"]
    ELSE IF Parent(n) \notin DOMAIN f THEN [fs |-> f, exc |-> "FileNotFoundError"]
    ELSE IF f[Parent(n)] = "ro" THEN [fs |-> f, exc |-> "PermissionError"]
    ELSE [fs |-> WithNodes(f, One(n, "dir")), exc |-> "ok"]

RECURSIVE makedirs(_, _)
makedirs(f, n) ==
    LET head == Parent(n)
        r == IF Len(n) > 1 /\ head \notin DOMAIN f
             THEN makedirs(f, head)
             ELSE [fs |-> f, exc |-> "ok"]
    IN  IF r.exc \notin {"ok", "FileExistsError"} THEN r ELSE mkdir(r.fs, n)

(* faulty variant: creates without looking whether the directory is there *)
create_dir_if_needed_unchecked(f, dir) ==
    LET r == makedirs(f, Resolve(dir))
    IN  [fs |-> r.fs,
         res |-> IF r.exc = "ok" THEN Return(Str(dir)) ELSE Raise(r.exc)]

create_dir_if_needed(f, dir) ==
    IF ~path_exists(f, dir)
    THEN LET r == makedirs(f, Resolve(dir))
         IN  [fs |-> r.fs,
              res |-> IF r.exc = "ok" THEN Return(Str(dir)) ELSE Raise(r.exc)]
    ELSE [fs |-> f, res |-> Return(Str(dir))]

(* --------------------------- accessors --------------------------------- *)
get_db_type == Subscript(GarminDBConfig.db, "type")

get_db_user == Subscript(GarminDBConfig.db, "user")

get_db_password == Subscript(GarminDBConfig.db, "password")

get_db_host == Subscript(GarminDBConfig.db, "host")

(* faulty variant: the home-relative flag is looked at before the test flag *)
get_base_dir_home_first(test_dir) ==
    LET base == GarminDBConfig.directories.base_dir
    IN  IF GarminDBConfig.directories.relative_to_home
        THEN homedir \o sep \o base
        ELSE IF test_dir THEN temp_dir \o sep \o base ELSE base

get_base_dir(test_dir) ==
    LET base == GarminDBConfig.directories.base_dir
    IN  IF test_dir THEN temp_dir \o sep \o base
        ELSE IF GarminDBConfig.directories.relative_to_home
             THEN homedir \o sep \o base
             ELSE base

get_fit_files_dir(test_dir) ==
    get_base_dir(test_dir) \o sep \o GarminDBConfig.directories.fit_file_dir

get_monitoring_base_dir(test_dir) ==
    get_fit_files_dir(test_dir) \o sep \o GarminDBConfig.directories.monitoring_file_dir

get_monitoring_dir(year, test_dir) ==
    get_monitoring_base_dir(test_dir) \o sep \o str(year)

get_activities_dir(test_dir) ==
    get_fit_files_dir(test_dir) \o sep \o GarminDBConfig.directories.activities_file_dir

get_sleep_dir(test_dir) ==
    get_base_dir(test_dir) \o sep \o GarminDBConfig.directories.sleep_files_dir

(* faulty variant: the weight directory follows the test flag like its siblings *)
get_weight_dir_symmetric(test_dir) ==
    get_base_dir(test_dir) \o sep \o GarminDBConfig.directories.weight_files_dir

get_weight_dir(test_dir) ==
    get_base_dir(FALSE) \o sep \o GarminDBConfig.directories.weight_files_dir

get_rhr_dir(test_dir) ==
    get_base_dir(test_dir) \o sep \o GarminDBConfig.directories.rhr_files_dir

get_fitbit_dir(test_dir) ==
    get_base_dir(test_dir) \o sep \o GarminDBConfig.directories.fitbit_file_dir

get_mshealth_dir(test_dir) ==
    get_base_dir(test_dir) \o sep \o GarminDBConfig.directories.mshealth_file_dir

get_or_create_fit_files_dir(f, test_dir) ==
    create_dir_if_needed(f, get_fit_files_dir(test_dir))

get_or_create_monitoring_base_dir(f, test_dir) ==
    create_dir_if_needed(f, get_monitoring_base_dir(test_dir))

get_or_create_monitoring_dir(f, year, test_dir) ==
    create_dir_if_needed(f, get_monitoring_dir(year, test_dir))

get_or_create_activities_dir(f, test_dir) ==
    create_dir_if_needed(f, get_activities_dir(test_dir))

get_or_create_sleep_dir(f, test_dir) ==
    create_dir_if_needed(f, get_sleep_dir(test_dir))

get_or_create_weight_dir(f, test_dir) ==
    create_dir_if_needed(f, get_weight_dir(test_dir))

get_or_create_rhr_dir(f, test_dir) ==
    create_dir_if_needed(f, get_rhr_dir(test_dir))

get_or_create_fitbit_dir(f, test_dir) ==
    create_dir_if_needed(f, get_fitbit_dir(test_dir))

get_or_create_mshealth_dir(f, test_dir) ==
    create_dir_if_needed(f, get_mshealth_dir(test_dir))

(* faulty variant: the test database directory is rooted at get_base_dir(True) *)
get_db_dir_under_base(f, test_db) ==
    LET base == get_base_dir(test_db)
    IN  create_dir_if_needed(f, base \o sep \o GarminDBConfig.directories.db_dir)

get_db_dir(f, test_db) ==
    LET base == IF test_db THEN temp_dir ELSE get_base_dir(FALSE)
    IN  create_dir_if_needed(f, base \o sep \o GarminDBConfig.directories.db_dir)

DbParams(kwargs) == [t |-> "DbParams", v |-> kwargs]

(* faulty variant: the mysql parameters carry a database directory as well *)
get_db_params_mysql_path(f, test_db) ==
    LET db_type == get_db_type
        d == get_db_dir(f, test_db)
    IN  IF db_type.kind = "raise" THEN [fs |-> f, res |-> db_type]
        ELSE IF db_type.val = Str(<<"sqlite">>)
        THEN IF d.res.kind = "raise" THEN d
             ELSE [fs |-> d.fs,
                   res |-> Return(DbParams([db_type |-> db_type.val,
                                            db_path |-> d.res.val]))]
        ELSE IF db_type.val = Str(<<"mysql">>)
        THEN IF get_db_user.kind = "raise" THEN [fs |-> f, res |-> get_db_user]
             ELSE IF get_db_password.kind = "raise" THEN [fs |-> f, res |-> get_db_password]
             ELSE IF get_db_host.kind = "raise" THEN [fs |-> f, res |-> get_db_host]
             ELSE IF d.res.kind = "raise" THEN d
             ELSE [fs |-> d.fs,
                   res |-> Return(DbParams([db_type |-> Str(<<"mysql">>),
                                            db_path |-> d.res.val,
                                            db_username |-> get_db_user.val,
                                            db_password |-> get_db_password.val,
                                            db_host |-> get_db_host.val]))]
        ELSE [fs |-> f, res |-> Return(DbParams([db_type |-> db_type.val]))]

(* faulty variant: every type that is not mysql is handled as sqlite *)
get_db_params_default_sqlite(f, test_db) ==
    LET db_type == get_db_type
        d == get_db_dir(f, test_db)
    IN  IF db_type.kind = "raise" THEN [fs |-> f, res |-> db_type]
        ELSE IF db_type.val = Str(<<"mysql">>)
        THEN IF get_db_user.kind = "raise" THEN [fs |-> f, res |-> get_db_user]
             ELSE IF get_db_password.kind = "raise" THEN [fs |-> f, res |-> get_db_password]
             ELSE IF get_db_host.kind = "raise" THEN [fs |-> f, res |-> get_db_host]
             ELSE [fs |-> f,
                   res |-> Return(DbParams([db_type |-> Str(<<"mysql">>),
                                            db_username |-> get_db_user.val,
                                            db_password |-> get_db_password.val,
                                            db_host |-> get_db_host.val]))]
        ELSE IF d.res.kind = "raise" THEN d
             ELSE [fs |-> d.fs,
                   res |-> Return(DbParams([db_type |-> db_type.val,
                                            db_path |-> d.res.val]))]

get_db_params(f, test_db) ==
    LET db_type == get_db_type
        only_type == [db_type |-> db_type.val]
    IN  IF db_type.kind = "raise" THEN [fs |-> f, res |-> db_type]
        ELSE IF db_type.val = Str(<<"sqlite">>)
        THEN LET d == get_db_dir(f, test_db)
             IN  IF d.res.kind = "raise" THEN d
                 ELSE [fs |-> d.fs,
                       res |-> Return(DbParams([db_type |-> db_type.val,
                                                db_path |-> d.res.val]))]
        ELSE IF db_type.val = Str(<<"mysql">>)
        THEN IF get_db_user.kind = "raise" THEN [fs |-> f, res |-> get_db_user]
             ELSE IF get_db_password.kind = "raise" THEN [fs |-> f, res |-> get_db_password]
             ELSE IF get_db_host.kind = "raise" THEN [fs |-> f, res |-> get_db_host]
             ELSE [fs |-> f,
                   res |-> Return(DbParams([db_type |-> Str(<<"mysql">>),
                                            db_username |-> get_db_user.val,
                                            db_password |-> get_db_password.val,
                                            db_host |-> get_db_host.val]))]
        ELSE [fs |-> f, res |-> Return(DbParams(only_type))]

get_metric == Subscript(GarminDBConfig.config, "metric")

device_settings_dir(mount_dir) ==
    mount_dir \o sep \o GarminDBConfig.device_directories.base
              \o sep \o GarminDBConfig.device_directories.settings

device_monitoring_dir(mount_dir) ==
    mount_dir \o sep \o GarminDBConfig.device_directories.base
              \o sep \o GarminDBConfig.device_directories.monitoring

device_sleep_dir(mount_dir) ==
    mount_dir \o sep \o GarminDBConfig.device_directories.base
              \o sep \o GarminDBConfig.device_directories.sleep

device_activities_dir(mount_dir) ==
    mount_dir \o sep \o GarminDBConfig.device_directories.base
              \o sep \o GarminDBConfig.device_directories.activities

graphs(key) == DictGet(GarminDBConfig.graphs, key)

graphs_activity_config(activity, key) ==
    LET a == graphs(activity)
    IN  IF a # None THEN DictGet(a.v, key) ELSE None

checkup(item) == DictGet(GarminDBConfig.checkup, item)

(* ------------------------ sequential caller ---------------------------- *)
C(op, t, y, m, a, b) == [op |-> op, test |-> t, year |-> y, mount |-> m, a |-> a, b |-> b]

NoCall == C("none", FALSE, 0, <<>>, "", "")

(* one call of a function whose outcome is out = [fs, res] *)
Invoke(c, out) ==
    /\ ncalls < MaxCalls
    /\ call' = c
    /\ result' = out.res
    /\ fs' = out.fs
    /\ ncalls' = ncalls + 1
    /\ again' = (c = call)
    /\ UNCHANGED <<GarminDBConfig, raceVars>>

(* one call of a function that touches no file: it returns res *)
Pure(c, res) == Invoke(c, [fs |-> fs, res |-> res])

GetDbType == Pure(C("get_db_type", FALSE, 0, <<>>, "", ""), get_db_type)

GetDbUser == Pure(C("get_db_user", FALSE, 0, <<>>, "", ""), get_db_user)

GetDbPassword == Pure(C("get_db_password", FALSE, 0, <<>>, "", ""), get_db_password)

GetDbHost == Pure(C("get_db_host", FALSE, 0, <<>>, "", ""), get_db_host)

GetMetric == Pure(C("get_metric", FALSE, 0, <<>>, "", ""), get_metric)

(* faulty variant: graphs[key] in place of graphs.get(key) *)
Graphs_subscript ==
    \E k \in GraphKeys :
        Pure(C("graphs", FALSE, 0, <<>>, k, ""), Subscript(GarminDBConfig.graphs, k))

Graphs ==
    \E k \in GraphKeys : Pure(C("graphs", FALSE, 0, <<>>, k, ""), Return(graphs(k)))

GraphsActivityConfig ==
    \E a \in GraphKeys, k \in GraphKeys :
        Pure(C("graphs_activity_config", FALSE, 0, <<>>, a, k),
             Return(graphs_activity_config(a, k)))

Checkup ==
    \E k \in CheckupKeys : Pure(C("checkup", FALSE, 0, <<>>, k, ""), Return(checkup(k)))

GetBaseDir ==
    \E t \in BOOLEAN :
        Pure(C("get_base_dir", t, 0, <<>>, "", ""), Return(Str(get_base_dir(t))))

GetFitFilesDir ==
    \E t \in BOOLEAN :
        Pure(C("get_fit_files_dir", t, 0, <<>>, "", ""), Return(Str(get_fit_files_dir(t))))

GetMonitoringBaseDir ==
    \E t \in BOOLEAN :
        Pure(C("get_monitoring_base_dir", t, 0, <<>>, "", ""),
             Return(Str(get_monitoring_base_dir(t))))

GetMonitoringDir ==
    \E t \in BOOLEAN, y \in Years :
        Pure(C("get_monitoring_dir", t, y, <<>>, "", ""),
             Return(Str(get_monitoring_dir(y, t))))

GetActivitiesDir ==
    \E t \in BOOLEAN :
        Pure(C("get_activities_dir", t, 0, <<>>, "", ""), Return(Str(get_activities_dir(t))))

(* faulty variant: the plain getter creates the directory it names *)
GetSleepDir_creating ==
    \E t \in BOOLEAN :
        Invoke(C("get_sleep_dir", t, 0, <<>>, "", ""), get_or_create_sleep_dir(fs, t))

GetSleepDir ==
    \E t \in BOOLEAN :
        Pure(C("get_sleep_dir", t, 0, <<>>, "", ""), Return(Str(get_sleep_dir(t))))

GetWeightDir ==
    \E t \in BOOLEAN :
        Pure(C("get_weight_dir", t, 0, <<>>, "", ""), Return(Str(get_weight_dir(t))))

GetRhrDir ==
    \E t \in BOOLEAN :
        Pure(C("get_rhr_dir", t, 0, <<>>, "", ""), Return(Str(get_rhr_dir(t))))

GetFitbitDir ==
    \E t \in BOOLEAN :
        Pure(C("get_fitbit_dir", t, 0, <<>>, "", ""), Return(Str(get_fitbit_dir(t))))

GetMshealthDir ==
    \E t \in BOOLEAN :
        Pure(C("get_mshealth_dir", t, 0, <<>>, "", ""), Return(Str(get_mshealth_dir(t))))

DeviceSettingsDir ==
    \E m \in MountDirs :
        Pure(C("device_settings_dir", FALSE, 0, m, "", ""), Return(Str(device_settings_dir(m))))

DeviceMonitoringDir ==
    \E m \in MountDirs :
        Pure(C("device_monitoring_dir", FALSE, 0, m, "", ""),
             Return(Str(device_monitoring_dir(m))))

DeviceSleepDir ==
    \E m \in MountDirs :
        Pure(C("device_sleep_dir", FALSE, 0, m, "", ""), Return(Str(device_sleep_dir(m))))

DeviceActivitiesDir ==
    \E m \in MountDirs :
        Pure(C("device_activities_dir", FALSE, 0, m, "", ""),
             Return(Str(device_activities_dir(m))))

GetOrCreateFitFilesDir ==
    \E t \in BOOLEAN :
        Invoke(C("get_or_create_fit_files_dir", t, 0, <<>>, "", ""),
               get_or_create_fit_files_dir(fs, t))

GetOrCreateMonitoringBaseDir ==
    \E t \in BOOLEAN :
        Invoke(C("get_or_create_monitoring_base_dir", t, 0, <<>>, "", ""),
               get_or_create_monitoring_base_dir(fs, t))

GetOrCreateMonitoringDir ==
    \E t \in BOOLEAN, y \in Years :
        Invoke(C("get_or_create_monitoring_dir", t, y, <<>>, "", ""),
               get_or_create_monitoring_dir(fs, y, t))

GetOrCreateActivitiesDir ==
    \E t \in BOOLEAN :
        Invoke(C("get_or_create_activities_dir", t, 0, <<>>, "", ""),
               get_or_create_activities_dir(fs, t))

GetOrCreateSleepDir ==
    \E t \in BOOLEAN :
        Invoke(C("get_or_create_sleep_dir", t, 0, <<>>, "", ""),
               get_or_create_sleep_dir(fs, t))

GetOrCreateWeightDir ==
    \E t \in BOOLEAN :
        Invoke(C("get_or_create_weight_dir", t, 0, <<>>, "", ""),
               get_or_create_weight_dir(fs, t))

GetOrCreateRhrDir ==
    \E t \in BOOLEAN :
        Invoke(C("get_or_create_rhr_dir", t, 0, <<>>, "", ""),
               get_or_create_rhr_dir(fs, t))

GetOrCreateFitbitDir ==
    \E t \in BOOLEAN :
        Invoke(C("get_or_create_fitbit_dir", t, 0, <<>>, "", ""),
               get_or_create_fitbit_dir(fs, t))

GetOrCreateMshealthDir ==
    \E t \in BOOLEAN :
        Invoke(C("get_or_create_mshealth_dir", t, 0, <<>>, "", ""),
               get_or_create_mshealth_dir(fs, t))

GetDbDir ==
    \E t \in BOOLEAN :
        Invoke(C("get_db_dir", t, 0, <<>>, "", ""), get_db_dir(fs, t))

GetDbParams ==
    \E t \in BOOLEAN :
        Invoke(C("get_db_params", t, 0, <<>>, "", ""), get_db_params(fs, t))

RaceIdle ==
    /\ pc = [p \in Callers |-> "idle"]
    /\ target = [p \in Callers |-> <<>>]
    /\ lvl = [p \in Callers |-> 0]
    /\ outcome = [p \in Callers |-> NoResult]

(* the prepared filesystems lie under the stock layout's directories *)
Init ==
    /\ GarminDBConfig \in Configs
    /\ fs \in InitialFs
    /\ fs # BaseTree =>
          /\ GarminDBConfig.directories = Directories(<<"HealthData">>, TRUE)
          /\ ~HasExtras(GarminDBConfig.db)
          /\ GarminDBConfig.db # EmptyMap
    /\ call = NoCall
    /\ result = NoResult
    /\ ncalls = 0
    /\ again = FALSE
    /\ RaceIdle

Next ==
    \/ GetDbType \/ GetDbUser \/ GetDbPassword \/ GetDbHost \/ GetMetric
    \/ Graphs \/ GraphsActivityConfig \/ Checkup
    \/ GetBaseDir \/ GetFitFilesDir \/ GetMonitoringBaseDir \/ GetMonitoringDir
    \/ GetActivitiesDir \/ GetSleepDir \/ GetWeightDir \/ GetRhrDir
    \/ GetFitbitDir \/ GetMshealthDir
    \/ DeviceSettingsDir \/ DeviceMonitoringDir \/ DeviceSleepDir \/ DeviceActivitiesDir
    \/ GetOrCreateFitFilesDir \/ GetOrCreateMonitoringBaseDir \/ GetOrCreateMonitoringDir
    \/ GetOrCreateActivitiesDir \/ GetOrCreateSleepDir \/ GetOrCreateWeightDir
    \/ GetOrCreateRhrDir \/ GetOrCreateFitbitDir \/ GetOrCreateMshealthDir
    \/ GetDbDir \/ GetDbParams

Spec == Init /\ [][Next]_vars

(* ----------------- two callers racing in _create_dir_if_needed --------- *)
(* the directories the get-or-create functions hand to _create_dir_if_needed *)
CreateDirArgs ==
    UNION { { get_fit_files_dir(t), get_monitoring_base_dir(t), get_activities_dir(t),
              get_sleep_dir(t), get_weight_dir(t), get_rhr_dir(t), get_fitbit_dir(t),
              get_mshealth_dir(t),
              (IF t THEN temp_dir ELSE get_base_dir(FALSE))
                  \o sep \o GarminDBConfig.directories.db_dir }
            \cup { get_monitoring_dir(y, t) : y \in Years } : t \in BOOLEAN }

(* a caller enters _create_dir_if_needed(dir) *)
RaceCall(p) ==
    /\ pc[p] = "idle"
    /\ \E dir \in CreateDirArgs : target' = [target EXCEPT ![p] = dir]
    /\ pc' = [pc EXCEPT ![p] = "exists"]
    /\ UNCHANGED <<GarminDBConfig, fs, lvl, outcome, seqVars>>

(* if not os.path.exists(dir) *)
RaceExists(p) ==
    /\ pc[p] = "exists"
    /\ IF path_exists(fs, target[p])
       THEN /\ pc' = [pc EXCEPT ![p] = "done"]
            /\ outcome' = [outcome EXCEPT ![p] = Return(Str(target[p]))]
            /\ lvl' = lvl
       ELSE /\ pc' = [pc EXCEPT ![p] = "makedirs"]
            /\ lvl' = [lvl EXCEPT ![p] = Len(Resolve(target[p]))]
            /\ outcome' = outcome
    /\ UNCHANGED <<GarminDBConfig, fs, target, seqVars>>

(* os.makedirs: if the head does not exist, recurse into it *)
RaceMakedirs(p) ==
    /\ pc[p] = "makedirs"
    /\ LET n == SubSeq(Resolve(target[p]), 1, lvl[p])
       IN  IF Len(n) > 1 /\ Parent(n) \notin DOMAIN fs
           THEN /\ lvl' = [lvl EXCEPT ![p] = lvl[p] - 1]
                /\ pc' = pc
           ELSE /\ pc' = [pc EXCEPT ![p] = "mkdir"]
                /\ lvl' = lvl
    /\ UNCHANGED <<GarminDBConfig, fs, target, outcome, seqVars>>

(* os.makedirs: mkdir(name); FileExistsError is swallowed for a head only *)
RaceMkdir(p) ==
    /\ pc[p] = "mkdir"
    /\ LET full == Resolve(target[p])
           r == mkdir(fs, SubSeq(full, 1, lvl[p]))
       IN  /\ fs' = r.fs
           /\ IF r.exc = "ok" /\ lvl[p] = Len(full)
              THEN /\ pc' = [pc EXCEPT ![p] = "done"]
                   /\ outcome' = [outcome EXCEPT ![p] = Return(Str(target[p]))]
                   /\ lvl' = lvl
              ELSE IF r.exc \in {"ok", "FileExistsError"} /\ lvl[p] < Len(full)
              THEN /\ lvl' = [lvl EXCEPT ![p] = lvl[p] + 1]
                   /\ UNCHANGED <<pc, outcome>>
              ELSE /\ pc' = [pc EXCEPT ![p] = "done"]
                   /\ outcome' = [outcome EXCEPT ![p] = Raise(r.exc)]
                   /\ lvl' = lvl
    /\ UNCHANGED <<GarminDBConfig, target, seqVars>>

RaceConfigs == { c \in Configs : c.db = Sqlite }

InitRace ==
    /\ GarminDBConfig \in RaceConfigs
    /\ fs = BaseTree
    /\ call = NoCall
    /\ result = NoResult
    /\ ncalls = 0
    /\ again = FALSE
    /\ RaceIdle

NextRace ==
    \E p \in Callers : RaceCall(p) \/ RaceExists(p) \/ RaceMakedirs(p) \/ RaceMkdir(p)

SpecRace == InitRace /\ [][NextRace]_vars

(* ============================ properties =============================== *)
B == GarminDBConfig.directories.base_dir

H == GarminDBConfig.directories.relative_to_home

D == GarminDBConfig.directories

IsPrefix(a, b) == Len(a) <= Len(b) /\ SubSeq(b, 1, Len(a)) = a

Returned == result.kind = "return"

RetPath == result.val.v

CreateOps ==
    { "get_or_create_fit_files_dir", "get_or_create_monitoring_base_dir",
      "get_or_create_monitoring_dir", "get_or_create_activities_dir",
      "get_or_create_sleep_dir", "get_or_create_weight_dir", "get_or_create_rhr_dir",
      "get_or_create_fitbit_dir", "get_or_create_mshealth_dir" }

(* the path exists and every directory above it is a directory *)
ExistsWithParents(f, path) ==
    /\ Resolve(path) \in DOMAIN f
    /\ \A n \in Prefixes(Resolve(path)) \ {Resolve(path)} :
          n \in DOMAIN f /\ f[n] \in {"dir", "ro"}

(* C1: get_base_dir(false) is home + sep + B when relative_to_home, else B
   verbatim; get_base_dir(true) is scratch + sep + B whatever the flag. *)
C1_BaseDir ==
    call.op = "get_base_dir" =>
        result = Return(Str(IF call.test THEN temp_dir \o sep \o B
                            ELSE IF H THEN homedir \o sep \o B ELSE B))

C1_Witness ==
    /\ call.op = "get_base_dir" /\ call.test /\ ~H /\ Returned
    /\ RetPath = temp_dir \o sep \o B

(* C2: after a get_or_create_X_dir call returns, the returned path exists with
   all its intermediate directories; the same call made again right away
   raises nothing, returns the same path and leaves the filesystem as it is. *)
C2_CreateIdempotent ==
    [][ /\ (call'.op \in CreateOps /\ result'.kind = "return")
             => ExistsWithParents(fs', result'.val.v)
        /\ (call.op \in CreateOps /\ Returned /\ call' = call /\ ncalls' = ncalls + 1)
             => (result' = result /\ fs' = fs) ]_vars

C2_Witness ==
    /\ call.op \in CreateOps /\ again /\ Returned
    /\ isdir(fs, RetPath)
    /\ Resolve(RetPath) \notin DOMAIN BaseTree

(* C3: two callers racing get-or-create on the same directory both complete
   successfully in every interleaving. *)
C3_BothSucceed ==
    (target[1] = target[2] /\ \A p \in Callers : pc[p] = "done")
        => \A p \in Callers : outcome[p].kind = "return"

DbTypeIs(x) == "type" \in DOMAIN GarminDBConfig.db /\ GarminDBConfig.db["type"] = Str(x)

DbDirPath(t) == (IF t THEN temp_dir ELSE get_base_dir(FALSE)) \o sep \o D.db_dir

(* C4: with db type sqlite the params hold the type and db_path = get_db_dir(test_db)
   and no username, password or host; with mysql they hold type, username, password
   and host equal to the four getters, the same for both values of test_db. *)
C4_DbParams ==
    (call.op = "get_db_params" /\ Returned) =>
        /\ DbTypeIs(<<"sqlite">>) =>
              /\ DOMAIN RetPath = {"db_type", "db_path"}
              /\ RetPath["db_path"] = get_db_dir(fs, call.test).res.val
              /\ RetPath["db_path"] = Str(DbDirPath(call.test))
        /\ DbTypeIs(<<"mysql">>) =>
              /\ DOMAIN RetPath = {"db_type", "db_username", "db_password", "db_host"}
              /\ RetPath["db_type"] = get_db_type.val
              /\ RetPath["db_username"] = get_db_user.val
              /\ RetPath["db_password"] = get_db_password.val
              /\ RetPath["db_host"] = get_db_host.val
              /\ get_db_params(fs, TRUE) = get_db_params(fs, FALSE)
              /\ get_db_params(fs, TRUE).res = result

C4_Witness ==
    /\ call.op = "get_db_params" /\ Returned /\ call.test
    /\ DbTypeIs(<<"sqlite">>)
    /\ RetPath["db_path"] = Str(temp_dir \o sep \o D.db_dir)

(* C5: with a db type that is neither sqlite nor mysql, get_db_params raises
   nothing, returns params holding the type only, and creates no directory. *)
C5_UnrecognizedDbType ==
    [][ ( /\ call'.op = "get_db_params" /\ ncalls' = ncalls + 1
          /\ "type" \in DOMAIN GarminDBConfig.db
          /\ ~DbTypeIs(<<"sqlite">>) /\ ~DbTypeIs(<<"mysql">>) )
        => /\ result' = Return(DbParams([db_type |-> GarminDBConfig.db["type"]]))
           /\ fs' = fs ]_vars

C5_Witness ==
    /\ call.op = "get_db_params" /\ DbTypeIs(<<"postgres">>)
    /\ Returned /\ DOMAIN RetPath = {"db_type"}

SubscriptGetters ==
    [ get_db_type |-> [sec |-> "db", key |-> "type"],
      get_db_user |-> [sec |-> "db", key |-> "user"],
      get_db_password |-> [sec |-> "db", key |-> "password"],
      get_db_host |-> [sec |-> "db", key |-> "host"],
      get_metric |-> [sec |-> "config", key |-> "metric"] ]

(* the key the call looks up is missing from its section *)
KeyMissing ==
    CASE call.op \in DOMAIN SubscriptGetters ->
           SubscriptGetters[call.op].key
              \notin DOMAIN GarminDBConfig[SubscriptGetters[call.op].sec]
      [] call.op = "graphs" -> call.a \notin DOMAIN GarminDBConfig.graphs
      [] call.op = "checkup" -> call.a \notin DOMAIN GarminDBConfig.checkup
      [] call.op = "graphs_activity_config" ->
           \/ call.a \notin DOMAIN GarminDBConfig.graphs
           \/ call.b \notin DOMAIN GarminDBConfig.graphs[call.a].v
      [] OTHER -> FALSE

(* C6 as stated: every scalar getter returns the absent-value marker and raises
   no error when the key it looks up is missing. *)
C6_AllGettersReturnAbsent ==
    KeyMissing => result = Return(None)

(* C6 amended: graphs, graphs_activity_config and checkup return the absent-value
   marker when the key (or the activity) is missing; get_db_type, get_db_user,
   get_db_password, get_db_host and get_metric raise KeyError. *)
C6_AbsentOrKeyError ==
    KeyMissing =>
        IF call.op \in DOMAIN SubscriptGetters
        THEN result = Raise("KeyError")
        ELSE result = Return(None)

C6_Witness ==
    /\ call.op = "graphs_activity_config" /\ KeyMissing
    /\ call.a \in DOMAIN GarminDBConfig.graphs
    /\ result = Return(None)

(* C7: when the directory of a get-or-create call (or get_db_dir) cannot be
   created, a path colliding with a non-directory file included, the call raises:
   it never returns a path where no directory stands. *)
C7_FailurePropagates ==
    (call.op \in CreateOps \cup {"get_db_dir"} /\ Returned) => isdir(fs, RetPath)

(* C8: get_db_dir(true) is scratch + sep + db_dir (not scratch + sep + base_dir
   + ...), get_db_dir(false) is get_base_dir(false) + sep + db_dir, and the
   returned path exists when the call returns. *)
C8_DbDir ==
    (call.op = "get_db_dir" /\ Returned) =>
        /\ RetPath = (IF call.test THEN temp_dir ELSE get_base_dir(FALSE)) \o sep \o D.db_dir
        /\ call.test => RetPath # get_base_dir(TRUE) \o sep \o D.db_dir
        /\ ExistsWithParents(fs, RetPath)

C8_Witness ==
    /\ call.op = "get_db_dir" /\ call.test /\ Returned
    /\ isdir(fs, temp_dir \o sep \o D.db_dir)
    /\ ~path_exists(fs, get_base_dir(TRUE))

TestDirGetters ==
    { "get_fit_files_dir", "get_monitoring_base_dir", "get_monitoring_dir",
      "get_activities_dir", "get_sleep_dir", "get_rhr_dir", "get_fitbit_dir",
      "get_mshealth_dir" }

(* C9: get_weight_dir is get_base_dir(false) + sep + weight_files_dir for both
   values of test_dir, so get_or_create_weight_dir(true) creates outside the
   scratch directory; every other category getter called with test_dir = true
   returns a path under scratch + sep + base_dir. *)
C9_WeightDirAsymmetry ==
    /\ call.op = "get_weight_dir" =>
          result = Return(Str(get_base_dir(FALSE) \o sep \o D.weight_files_dir))
    /\ (call.op = "get_or_create_weight_dir" /\ Returned) =>
          /\ RetPath = get_base_dir(FALSE) \o sep \o D.weight_files_dir
          /\ ~IsPrefix(temp_dir, RetPath)
          /\ path_exists(fs, RetPath)
          /\ ~path_exists(fs, temp_dir \o sep \o B \o sep \o D.weight_files_dir)
    /\ (call.op \in TestDirGetters /\ call.test) =>
          /\ Returned
          /\ IsPrefix(temp_dir \o sep \o B \o sep, RetPath)

C9_Witness ==
    /\ call.op = "get_or_create_weight_dir" /\ call.test /\ Returned
    /\ isdir(fs, homedir \o sep \o B \o sep \o D.weight_files_dir)

PlainOps ==
    TestDirGetters \cup
    { "get_base_dir", "get_weight_dir", "device_settings_dir", "device_monitoring_dir",
      "device_sleep_dir", "device_activities_dir" }

Root(t) == IF t THEN temp_dir \o sep \o B ELSE IF H THEN homedir \o sep \o B ELSE B

Dev(c, x) == c.mount \o sep \o GarminDBConfig.device_directories.base \o sep \o x

(* the path of a plain getter as a function of the ConfigStore, the test-mode
   flag and the year or mount point, by the directory hierarchy *)
PathOf(c) ==
    CASE c.op = "get_base_dir" -> Root(c.test)
      [] c.op = "get_fit_files_dir" -> Root(c.test) \o sep \o D.fit_file_dir
      [] c.op = "get_monitoring_base_dir" ->
           Root(c.test) \o sep \o D.fit_file_dir \o sep \o D.monitoring_file_dir
      [] c.op = "get_monitoring_dir" ->
           Root(c.test) \o sep \o D.fit_file_dir \o sep \o D.monitoring_file_dir
                        \o sep \o str(c.year)
      [] c.op = "get_activities_dir" ->
           Root(c.test) \o sep \o D.fit_file_dir \o sep \o D.activities_file_dir
      [] c.op = "get_sleep_dir" -> Root(c.test) \o sep \o D.sleep_files_dir
      [] c.op = "get_weight_dir" -> Root(FALSE) \o sep \o D.weight_files_dir
      [] c.op = "get_rhr_dir" -> Root(c.test) \o sep \o D.rhr_files_dir
      [] c.op = "get_fitbit_dir" -> Root(c.test) \o sep \o D.fitbit_file_dir
      [] c.op = "get_mshealth_dir" -> Root(c.test) \o sep \o D.mshealth_file_dir
      [] c.op = "device_settings_dir" -> Dev(c, GarminDBConfig.device_directories.settings)
      [] c.op = "device_monitoring_dir" -> Dev(c, GarminDBConfig.device_directories.monitoring)
      [] c.op = "device_sleep_dir" -> Dev(c, GarminDBConfig.device_directories.sleep)
      [] c.op = "device_activities_dir" -> Dev(c, GarminDBConfig.device_directories.activities)

(* C10: a plain getter or device path builder leaves the filesystem unchanged
   and returns the path fixed by the ConfigStore, the test-mode flag and the
   year or mount point, after any earlier calls and in any filesystem state. *)
C10_PlainGettersPure ==
    [][ (call'.op \in PlainOps /\ ncalls' = ncalls + 1)
        => /\ fs' = fs
           /\ result' = Return(Str(PathOf(call'))) ]_vars

C10_Witness ==
    /\ call.op = "get_sleep_dir" /\ call.test /\ Returned
    /\ ncalls = 2
    /\ isdir(fs, RetPath)

====
